---- MODULE Spec2Model ----
(***************************************************************************)
(* A model of the lorri daemon: the per-project BuildLoop                  *)
(* (src/src/build_loop.rs), the error taxonomy (src/src/error.rs), the     *)
(* startup, event router, accept loop and build-instruction handler of     *)
(* src/src/ops/daemon.rs, and the stream_events client                     *)
(* (src/src/ops/stream_events.rs).                                         *)
(***************************************************************************)
EXTENDS Integers, Sequences, FiniteSets, TLC

VARIABLES
    pc,               \* per project: position of its BuildLoop thread
    watch,            \* per project: BuildLoop.watch, the set of watched paths
    raw_events,       \* per project: notifications pending in the watcher's channel
    watcher_alive,    \* per project: the watcher's sending end still exists
    root_exists,      \* per project: the GC root of the last Completed build is on disk
    sent,             \* per project: history of the events forever() has sent
    accept_messages,  \* channel accept handlers -> build-instruction-handler
    build_messages,   \* channel build loops / accept handlers -> router
    project_states,   \* router: HashMap<NixFile, Event>
    event_listeners,  \* router: Vec<Sender<Event>>
    accepted,         \* per listener: its StreamEvents connection was accepted
    rx_alive,         \* per listener: the receiving end of its channel exists
    stream,           \* per listener: what was sent into its channel, in order
    routed,           \* history of the messages the router has processed
    pings,            \* number of start-build requests accepted so far
    last_run,         \* per project: what the latest call of once() met
    process_alive,    \* FALSE once a thread has panicked
    event_kind,       \* stream_events client: the EventKind it was invoked with (kind)
    wire,             \* client: what the connection to the daemon has yet to yield
    chan,             \* client: the local channel between reader thread and main
    client_pc,        \* client: position of main()
    snapshot_done,    \* client: the local of that name
    output,           \* client: the lines printed so far
    served,           \* client: everything the connection yields, from the start
    main_pc,          \* daemon: position of main()
    bind_result,      \* daemon: what binding the socket returned
    during_build      \* per project: the notification queued last was queued while
                      \* a build ran (kept until the loop's next wait returns)

client_vars == << event_kind, wire, chan, client_pc, snapshot_done, output, served >>

main_vars == << main_pc, bind_result >>

vars == << pc, watch, raw_events, watcher_alive, root_exists, sent,
           accept_messages, build_messages, project_states, event_listeners,
           accepted, rx_alive, stream, routed, pings, last_run, process_alive,
           client_vars, main_vars, during_build >>

daemon_vars == << pc, watch, raw_events, watcher_alive, root_exists, sent,
                  accept_messages, build_messages, project_states, event_listeners,
                  accepted, rx_alive, stream, routed, pings, last_run, process_alive,
                  main_vars, during_build >>

env_vars == << raw_events, watcher_alive, root_exists >>
router_vars == << project_states, event_listeners, stream, routed >>

----------------------------------------------------------------------------
(* Bounds of the model *)

MaxBuilds == 2        \* builds started in a run, over all BuildLoops
MaxRawEvents == 1     \* notifications pending in one watcher channel
MaxPings == 2         \* start-build requests accepted in a run
NumListeners == 2     \* StreamEvents connections in a run
MaxDisconnects == 1   \* StreamEvents clients that go away in a run
MaxSectionEnds == 1   \* SectionEnd messages sent to the router in a run

Projects == {"a.nix", "b.nix"}
Listeners == 1..NumListeners

----------------------------------------------------------------------------
(* Sequence helpers *)

Range(s) == {s[i] : i \in 1..Len(s)}

SelectIdx(s, P(_)) == {i \in 1..Len(s) : P(s[i])}

Last(s) == s[Len(s)]

\* all orders in which the elements of a finite set can be iterated
Orders(S) == {f \in [1..Cardinality(S) -> S] : \A x \in S : \E i \in DOMAIN f : f[i] = x}

----------------------------------------------------------------------------
(* Events: src/src/build_loop.rs, enum Event.  The field id numbers the    *)
(* events one BuildLoop sends, so that two emissions are told apart.       *)

NoEvent == [type |-> "None"]    \* no entry in a map

SectionEnd == [type |-> "SectionEnd"]

Started(nix_file, reason, n) ==
    [type |-> "Started", nix_file |-> nix_file, reason |-> reason, id |-> n]

Completed(nix_file, result, n) ==
    [type |-> "Completed", nix_file |-> nix_file, result |-> result, id |-> n]

Failure(nix_file, failure, n) ==
    [type |-> "Failure", nix_file |-> nix_file, failure |-> failure, id |-> n]

IsTerminal(ev) == ev.type \in {"Completed", "Failure"}

(* Reasons: crate::watch::Reason as used by forever() *)
ProjectAdded(nix_file) == [kind |-> "ProjectAdded", arg |-> <<nix_file>>]
FilesChanged(paths) == [kind |-> "FilesChanged", arg |-> paths]
UnknownEvent(msg) == [kind |-> "UnknownEvent", arg |-> <<msg>>]
PingReceived == [kind |-> "PingReceived", arg |-> <<>>]
NoReason == [kind |-> "None", arg |-> <<>>]

----------------------------------------------------------------------------
(* The collaborators of the BuildLoop *)

\* what the OS watcher can put into the notification channel
RawEvents == {<<"d/f">>, <<>>}   \* the paths a notification names; none: no file path

\* the Debug output of a notification
DebugMessage(raw) == "RawEvent{path: None}"

\* Watch::wait_for_change on the head of the channel; the channel is closed
\* when it is empty and the watcher is gone
wait_for_change(p) ==
    IF raw_events[p] = <<>>
    THEN [tag |-> "Err", err |-> "RxNoEventReceived", msg |-> "", reason |-> NoReason]
    ELSE IF Head(raw_events[p]) = <<>>
         THEN [tag |-> "Err", err |-> "EventHasNoFilePath",
               msg |-> DebugMessage(Head(raw_events[p])), reason |-> NoReason]
         ELSE [tag |-> "Ok", err |-> "", msg |-> "",
               reason |-> FilesChanged(Head(raw_events[p]))]

\* variants of src/src/error.rs BuildError
BuildErrorKinds == {"Io", "Spawn", "Exit", "Output"}

is_actionable(kind) ==
    CASE kind = "Io" -> FALSE
      [] kind = "Spawn" -> TRUE
      [] kind = "Exit" -> TRUE
      [] kind = "Output" -> TRUE

\* builder::run: an error, or a run result with the log lines on the side channel
\* (a non-zero exit of Nix is reported in the status, not as an error)
RunOutcomes ==
    [tag : {"Err"}, err : BuildErrorKinds \ {"Exit"}]
    \cup { [tag |-> "Ok", referenced_paths |-> {"d", "d/f"}, status |-> "FailedAtInstantiation",
            path |-> "", lines |-> <<"l1", "l2">>],
          [tag |-> "Ok", referenced_paths |-> {"e"}, status |-> "FailedAtRealize",
            path |-> "", lines |-> <<"l2">>],
          [tag |-> "Ok", referenced_paths |-> {"d/f"}, status |-> "Complete",
            path |-> "out", lines |-> <<"l1">>] }

\* the directory a path lies in, for the paths that have one in the model
Parent(x) == IF x = "d/f" THEN "d" ELSE x

\* pathreduction::reduce_paths: a path below a directory of the set is dropped
reduce_paths(paths) == {x \in paths : Parent(x) = x \/ Parent(x) \notin paths}

\* Roots::create_roots
create_roots(p, path) == [output_paths |-> <<"gcroot", p, path>>]

----------------------------------------------------------------------------
(* BuildLoop::once and its helpers *)

\* register_paths: the watch set after extending it with the reduced paths
register_paths(p, paths) == watch[p] \cup reduce_paths(paths)

\* root_result: Ok(BuildResults) or the AddRootError converted by From
root_result(p, path, root_ok) ==
    IF root_ok
    THEN [tag |-> "Ok", result |-> create_roots(p, path)]
    ELSE [tag |-> "Unrecoverable", err |-> "AddRoot"]

\* the captured log lines are dropped
BuildExitFailure_no_lines(lines) == [log_lines |-> << >>]

\* BuildExitFailure { log_lines }
BuildExitFailure(lines) == [log_lines |-> lines]

\* the result of register_paths is ignored
once_ignores_extension(p, run, extend_ok, root_ok) ==
    IF run.tag = "Err" THEN [tag |-> "Unrecoverable", err |-> "Build"]
    ELSE CASE run.status = "FailedAtInstantiation" ->
                [tag |-> "Recoverable", failure |-> BuildExitFailure(run.lines)]
           [] run.status = "FailedAtRealize" ->
                [tag |-> "Recoverable", failure |-> BuildExitFailure(run.lines)]
           [] run.status = "Complete" -> root_result(p, run.path, root_ok)

\* once(): the Result it returns for one outcome of the executor, of the
\* watch extension (extend_ok) and of the root creation (root_ok)
once(p, run, extend_ok, root_ok) ==
    IF run.tag = "Err" THEN [tag |-> "Unrecoverable", err |-> "Build"]
    ELSE IF ~extend_ok THEN [tag |-> "Unrecoverable", err |-> "Notify"]
    ELSE CASE run.status = "FailedAtInstantiation" ->
                [tag |-> "Recoverable", failure |-> BuildExitFailure(run.lines)]
           [] run.status = "FailedAtRealize" ->
                [tag |-> "Recoverable", failure |-> BuildExitFailure(run.lines)]
           [] run.status = "Complete" -> root_result(p, run.path, root_ok)

\* the status is looked at first: only a completed build extends the watch set
watch_after_once_if_complete(p, run, extend_ok) ==
    IF run.tag = "Ok" /\ extend_ok /\ run.status = "Complete"
    THEN register_paths(p, run.referenced_paths) ELSE watch[p]

\* the watch set once() leaves behind
watch_after_once(p, run, extend_ok) ==
    IF run.tag = "Ok" /\ extend_ok THEN register_paths(p, run.referenced_paths) ELSE watch[p]

\* the root on disk once() leaves behind
root_after_once(p, res) == IF res.tag = "Ok" THEN TRUE ELSE root_exists[p]

----------------------------------------------------------------------------
(* BuildLoop::forever *)

\* send = |msg| tx.send(msg): the events enter the router's channel in order
send(p, evs) ==
    /\ sent' = [sent EXCEPT ![p] = @ \o evs]
    /\ build_messages' =
         build_messages \o [i \in 1..Len(evs) |-> [kind |-> "BuildEvent", ev |-> evs[i]]]

NextId(p) == Len(sent[p]) + 1

BuildsStarted(p) == Cardinality(SelectIdx(sent[p], LAMBDA e : e.type = "Started"))

RECURSIVE BuildsOf(_)
BuildsOf(S) ==
    IF S = {} THEN 0
    ELSE LET p == CHOOSE q \in S : TRUE IN BuildsStarted(p) + BuildsOf(S \ {p})

TotalBuilds == BuildsOf(Projects)

\* the calls once() does not reach have no outcome to choose
Reached(run, extend_ok, root_ok) ==
    /\ run.tag = "Err" => extend_ok
    /\ ~(run.tag = "Ok" /\ extend_ok /\ run.status = "Complete") => root_ok

\* the first Started cites a file change instead of the added project
first_send_wrong_reason(p) == << Started(p, FilesChanged(<< >>), NextId(p)) >>

\* lines 90-92: what forever() sends before it enters the loop
first_send(p) == << Started(p, ProjectAdded(p), NextId(p)) >>

\* a recoverable failure is swallowed: nothing is sent and the loop goes on
match_once_swallows_failure(p, res) ==
    CASE res.tag = "Ok" ->
           [events |-> << Completed(p, res.result, NextId(p)) >>, panics |-> FALSE]
      [] res.tag = "Recoverable" ->
           [events |-> << >>, panics |-> FALSE]
      [] res.tag = "Unrecoverable" ->
           [events |-> << >>, panics |-> TRUE]

\* lines 95-101: the match on the result of once(): what is sent, or a panic
match_once(p, res) ==
    CASE res.tag = "Ok" ->
           [events |-> << Completed(p, res.result, NextId(p)) >>, panics |-> FALSE]
      [] res.tag = "Recoverable" ->
           [events |-> << Failure(p, res.failure, NextId(p)) >>, panics |-> FALSE]
      [] res.tag = "Unrecoverable" ->
           [events |-> << >>, panics |-> TRUE]

\* the reason is cited twice
match_wait_twice(p, w) ==
    CASE w.tag = "Ok" ->
           [events |-> << Started(p, w.reason, NextId(p)),
                          Started(p, w.reason, NextId(p) + 1) >>, panics |-> FALSE]
      [] w.tag = "Err" /\ w.err = "EventHasNoFilePath" ->
           [events |-> << Started(p, UnknownEvent(w.msg), NextId(p)) >>, panics |-> FALSE]
      [] w.tag = "Err" /\ w.err = "RxNoEventReceived" ->
           [events |-> << >>, panics |-> TRUE]

\* the reason is dropped: nothing is sent for it
match_wait_drops_reason(p, w) ==
    CASE w.tag = "Ok" ->
           [events |-> << >>, panics |-> FALSE]
      [] w.tag = "Err" /\ w.err = "EventHasNoFilePath" ->
           [events |-> << >>, panics |-> FALSE]
      [] w.tag = "Err" /\ w.err = "RxNoEventReceived" ->
           [events |-> << >>, panics |-> TRUE]

\* an event without a file path is treated like a dead watcher
match_wait_no_path_fatal(p, w) ==
    CASE w.tag = "Ok" ->
           [events |-> << Started(p, w.reason, NextId(p)) >>, panics |-> FALSE]
      [] w.tag = "Err" ->
           [events |-> << >>, panics |-> TRUE]

\* lines 103-123: the match on wait_for_change and the send of Started(reason)
match_wait(p, w) ==
    CASE w.tag = "Ok" ->
           [events |-> << Started(p, w.reason, NextId(p)) >>, panics |-> FALSE]
      [] w.tag = "Err" /\ w.err = "EventHasNoFilePath" ->
           [events |-> << Started(p, UnknownEvent(w.msg), NextId(p)) >>, panics |-> FALSE]
      [] w.tag = "Err" /\ w.err = "RxNoEventReceived" ->
           [events |-> << >>, panics |-> TRUE]

\* a panic of a BuildLoop thread takes the process down
process_after(panics) == ~panics

\* one step of the thread: it sends, and either goes on to `next` or panics
step(p, m, next) ==
    /\ send(p, m.events)
    /\ pc' = [pc EXCEPT ![p] = IF m.panics THEN "panicked" ELSE next]
    /\ process_alive' = process_after(m.panics)

\* lines 88-92: the first send, before the loop
ForeverStart(p) ==
    /\ process_alive
    /\ pc[p] = "init"
    /\ TotalBuilds < MaxBuilds
    /\ step(p, [events |-> first_send(p), panics |-> FALSE], "building")
    /\ UNCHANGED << watch, env_vars, accept_messages, router_vars, accepted, rx_alive,
                    pings, last_run >>
    /\ UNCHANGED << client_vars, main_vars, during_build >>

\* lines 95-101: one call of once() and the match on its result
ForeverBuild(p) ==
    /\ process_alive
    /\ pc[p] = "building"
    /\ \E run \in RunOutcomes, extend_ok \in BOOLEAN, root_ok \in BOOLEAN :
         LET res == once(p, run, extend_ok, root_ok) IN
         /\ Reached(run, extend_ok, root_ok)
         /\ last_run' = [last_run EXCEPT ![p] =
                            [run |-> run, extend_ok |-> extend_ok, root_ok |-> root_ok]]
         /\ watch' = [watch EXCEPT ![p] = watch_after_once(p, run, extend_ok)]
         /\ root_exists' = [root_exists EXCEPT ![p] = root_after_once(p, res)]
         /\ step(p, match_once(p, res), "waiting")
    /\ UNCHANGED << raw_events, watcher_alive, accept_messages, router_vars,
                    accepted, rx_alive, pings >>
    /\ UNCHANGED << client_vars, main_vars, during_build >>

\* lines 103-123: wait_for_change returns, the reason is sent as Started
ForeverWait(p) ==
    /\ process_alive
    /\ pc[p] = "waiting"
    /\ raw_events[p] # <<>> \/ ~watcher_alive[p]
    /\ TotalBuilds < MaxBuilds \/ raw_events[p] = <<>>
    /\ raw_events' = [raw_events EXCEPT ![p] = IF @ = <<>> THEN @ ELSE Tail(@)]
    /\ step(p, match_wait(p, wait_for_change(p)), "building")
    /\ during_build' = [during_build EXCEPT ![p] = FALSE]
    /\ UNCHANGED << watch, watcher_alive, root_exists, accept_messages, router_vars,
                    accepted, rx_alive, pings, last_run >>
    /\ UNCHANGED << client_vars, main_vars >>

----------------
(* The environment of a BuildLoop *)

\* the OS watcher notices a change and queues a notification; it has
\* nothing to watch before the first call of once() extends the watch set
FileChange(p) ==
    /\ process_alive
    /\ pc[p] \in {"building", "waiting"}
    /\ watcher_alive[p]
    /\ Len(raw_events[p]) < MaxRawEvents
    /\ TotalBuilds < MaxBuilds
    /\ \E raw \in RawEvents : raw_events' = [raw_events EXCEPT ![p] = Append(@, raw)]
    /\ during_build' = [during_build EXCEPT ![p] = (pc[p] = "building")]
    /\ UNCHANGED << pc, watch, watcher_alive, root_exists, sent, accept_messages,
                    build_messages, router_vars, accepted, rx_alive, pings, last_run,
                    process_alive >>
    /\ UNCHANGED << client_vars, main_vars >>

\* the watcher thread dies: its end of the notification channel is dropped
WatcherDies(p) ==
    /\ process_alive
    /\ pc[p] # "absent"
    /\ watcher_alive[p]
    /\ watcher_alive' = [watcher_alive EXCEPT ![p] = FALSE]
    /\ UNCHANGED << pc, watch, raw_events, root_exists, sent, accept_messages,
                    build_messages, router_vars, accepted, rx_alive, pings, last_run,
                    process_alive >>
    /\ UNCHANGED << client_vars, main_vars, during_build >>

\* an external garbage collection deletes the project's root
DeleteRoot(p) ==
    /\ process_alive
    /\ root_exists[p]
    /\ root_exists' = [root_exists EXCEPT ![p] = FALSE]
    /\ UNCHANGED << pc, watch, raw_events, watcher_alive, sent, accept_messages,
                    build_messages, router_vars, accepted, rx_alive, pings, last_run,
                    process_alive >>
    /\ UNCHANGED << client_vars, main_vars, during_build >>

----------------------------------------------------------------------------
(* src/src/ops/daemon.rs: main() binds the socket, lines 21-28 *)

\* Listener::new: the socket is bound, or a BindError; Other stands for
\* every BindError that is not OtherProcessListening
BindResults == {"Ok", "OtherProcessListening", "Other"}

\* every bind error panics
after_bind_panics(r) == IF r = "Ok" THEN "running" ELSE "panicked"

\* lines 21-28: where main() is after Listener::new(..).map_err(..)?
after_bind(r) ==
    CASE r = "Ok" -> "running"
      [] r = "OtherProcessListening" -> "user_error"
      [] r = "Other" -> "panicked"

\* lines 21-28: main() binds; on an error it returns or panics, and the
\* process ends before line 30
Bind ==
    /\ main_pc = "binding"
    /\ \E r \in BindResults :
         /\ bind_result' = r
         /\ main_pc' = after_bind(r)
         /\ process_alive' = (after_bind(r) = "running")
    /\ UNCHANGED << pc, watch, env_vars, sent, accept_messages, build_messages,
                    router_vars, accepted, rx_alive, pings, last_run, client_vars,
                    during_build >>

\* main() has bound the socket and spawned its threads
Bound == main_pc = "running" /\ bind_result = "Ok"

----------------------------------------------------------------------------
(* src/src/ops/daemon.rs: accept loop and build-instruction handler *)

\* lines 47-49: a Ping connection asks to start the build of nix_file
AcceptPing(p) ==
    /\ process_alive
    /\ main_pc = "running"
    /\ pings < MaxPings
    /\ pings' = pings + 1
    /\ accept_messages' = Append(accept_messages, [nix_file |-> p])
    /\ UNCHANGED << pc, watch, env_vars, sent, build_messages, router_vars, accepted,
                    rx_alive, last_run, process_alive >>
    /\ UNCHANGED << client_vars, main_vars, during_build >>

\* lines 50-58: a StreamEvents connection gets a fresh channel, whose sending
\* end goes to the router; the connections are numbered as they are accepted
AcceptStreamEvents(l) ==
    /\ process_alive
    /\ main_pc = "running"
    /\ ~accepted[l]
    /\ \A k \in Listeners : k < l => accepted[k]
    /\ accepted' = [accepted EXCEPT ![l] = TRUE]
    /\ rx_alive' = [rx_alive EXCEPT ![l] = TRUE]
    /\ build_messages' = Append(build_messages, [kind |-> "NewListener", tx |-> l])
    /\ UNCHANGED << pc, watch, env_vars, sent, accept_messages, router_vars, pings,
                    last_run, process_alive >>
    /\ UNCHANGED << client_vars, main_vars, during_build >>

Disconnected == {l \in Listeners : accepted[l] /\ ~rx_alive[l]}

\* the client of a StreamEvents connection goes away: the receiver is dropped
Disconnect(l) ==
    /\ process_alive
    /\ rx_alive[l]
    /\ Cardinality(Disconnected) < MaxDisconnects
    /\ rx_alive' = [rx_alive EXCEPT ![l] = FALSE]
    /\ UNCHANGED << pc, watch, env_vars, sent, accept_messages, build_messages,
                    router_vars, accepted, pings, last_run, process_alive >>
    /\ UNCHANGED << client_vars, main_vars, during_build >>

\* a BuildLoop thread is spawned for every request
daemon_add_respawns(p) == [pc EXCEPT ![p] = "init"]

\* Daemon::add: a BuildLoop thread is spawned for a project not yet running
daemon_add(p) == IF pc[p] = "absent" THEN [pc EXCEPT ![p] = "init"] ELSE pc

\* lines 99-108: one start-build request; Project::new(..).unwrap() may panic
HandleStartBuild ==
    /\ process_alive
    /\ accept_messages # <<>>
    /\ accept_messages' = Tail(accept_messages)
    /\ \E project_ok \in BOOLEAN :
         IF project_ok
         THEN /\ pc' = daemon_add(Head(accept_messages).nix_file)
              /\ UNCHANGED process_alive
         ELSE /\ process_alive' = FALSE
              /\ UNCHANGED pc
    /\ UNCHANGED << watch, env_vars, sent, build_messages, router_vars, accepted,
                    rx_alive, pings, last_run >>
    /\ UNCHANGED << client_vars, main_vars, during_build >>

----------------------------------------------------------------------------
(* src/src/ops/daemon.rs: the router thread ("build-loop"), lines 65-91 *)

\* project_states.values()
StateValues == {project_states[p] : p \in {q \in Projects : project_states[q] # NoEvent}}

\* the entry of a project is written once and never replaced
insert_if_absent(states, ev) ==
    IF states[ev.nix_file] = NoEvent THEN [states EXCEPT ![ev.nix_file] = ev] ELSE states

\* line 77: project_states.insert(nix_file, ev)
insert(states, ev) == [states EXCEPT ![ev.nix_file] = ev]

\* nobody is ever removed
retain_all(listeners) == listeners

\* the test of retain() is inverted: the listeners whose send failed are kept
retain_failed(listeners) == SelectSeq(listeners, LAMBDA l : ~rx_alive[l])

\* line 78: the listeners retain() keeps: those whose send succeeded
retain(listeners) == SelectSeq(listeners, LAMBDA l : rx_alive[l])

\* every event is sent twice
broadcast_twice(listeners, ev) ==
    [l \in Listeners |->
        IF l \in Range(listeners) /\ rx_alive[l]
        THEN Append(Append(stream[l], ev), ev) ELSE stream[l]]

\* what insert() returns, the previous entry of the project, is sent on
broadcast_previous(listeners, ev) ==
    [l \in Listeners |->
        IF l \in Range(listeners) /\ rx_alive[l]
        THEN Append(stream[l], IF project_states[ev.nix_file] # NoEvent
                                THEN project_states[ev.nix_file] ELSE ev)
        ELSE stream[l]]

\* line 78: what the sends of retain() put into the channels
broadcast(listeners, ev) ==
    [l \in Listeners |->
        IF l \in Range(listeners) /\ rx_alive[l] THEN Append(stream[l], ev) ELSE stream[l]]

\* lines 72-80
RouteBuildEvent(ev) ==
    IF ev.type = "SectionEnd"
    THEN UNCHANGED << project_states, event_listeners, stream, rx_alive >>
    ELSE /\ project_states' = insert(project_states, ev)
         /\ event_listeners' = retain(event_listeners)
         /\ stream' = broadcast(event_listeners, ev)
         /\ UNCHANGED rx_alive

\* the sentinel is forgotten
replay_without_sentinel(order) == order

\* lines 82-85: everything the handler tries to send to a new listener
replay(order) == order \o << SectionEnd >>

\* the listener is pushed whatever the sends returned
push_always(listeners, l, keep) == Append(listeners, l)

\* lines 85-87: the listener is pushed when every send has succeeded
push(listeners, l, keep) == IF keep THEN Append(listeners, l) ELSE listeners

\* lines 81-88: the values are replayed in the map's iteration order; the
\* receiver may be dropped before any of the sends: the first k succeed
RouteNewListener(l) ==
    \E order \in Orders(StateValues) :
      \E k \in 0..Len(replay(order)) :
        /\ rx_alive[l] \/ k = 0
        /\ Cardinality(Disconnected) < MaxDisconnects \/ ~rx_alive[l] \/ k = Len(replay(order))
        /\ stream' = [stream EXCEPT ![l] = @ \o SubSeq(replay(order), 1, k)]
        /\ rx_alive' = [rx_alive EXCEPT ![l] = @ /\ k = Len(replay(order))]
        /\ event_listeners' = push(event_listeners, l, k = Len(replay(order)))
        /\ UNCHANGED project_states

\* the SectionEnd messages sent to the router so far
SectionEndsSent ==
    Cardinality({i \in DOMAIN routed : routed[i] = [kind |-> "BuildEvent", ev |-> SectionEnd]})
    + Cardinality({i \in DOMAIN build_messages :
                     build_messages[i] = [kind |-> "BuildEvent", ev |-> SectionEnd]})

\* a holder of build_events_tx sends BuildEvent(SectionEnd) to the router
SendSectionEnd ==
    /\ process_alive
    /\ main_pc = "running"
    /\ SectionEndsSent < MaxSectionEnds
    /\ build_messages' = Append(build_messages, [kind |-> "BuildEvent", ev |-> SectionEnd])
    /\ UNCHANGED << pc, watch, env_vars, sent, accept_messages, router_vars, accepted,
                    rx_alive, pings, last_run, process_alive, client_vars, main_vars,
                    during_build >>

\* the channels the handling of msg sends into
SendsTo(msg) == IF msg.kind = "BuildEvent" THEN Range(event_listeners) ELSE {msg.tx}

\* a channel without capacity: a send waits for a connected receiver to take it
send_blocks_rendezvous(l) == rx_alive[l]

\* line 51: chan::unbounded(): a send never waits for the receiver
send_blocks(l) == FALSE

\* line 69: for msg in build_messages_rx
Router ==
    /\ process_alive
    /\ build_messages # <<>>
    /\ \A l \in SendsTo(Head(build_messages)) : ~send_blocks(l)
    /\ build_messages' = Tail(build_messages)
    /\ routed' = Append(routed, Head(build_messages))
    /\ LET msg == Head(build_messages) IN
         IF msg.kind = "BuildEvent" THEN RouteBuildEvent(msg.ev) ELSE RouteNewListener(msg.tx)
    /\ UNCHANGED << pc, watch, env_vars, sent, accept_messages, accepted, pings,
                    last_run, process_alive >>
    /\ UNCHANGED << client_vars, main_vars, during_build >>

----------------------------------------------------------------------------
(* src/src/ops/stream_events.rs: the stream_events client.  Its reader     *)
(* thread copies what the connection yields into a local channel; main()   *)
(* takes the first item with a timeout, puts it back into the channel     *)
(* (lines 67-70) and then reads the channel in a loop.                     *)

\* enum EventKind
EventKinds == {"Live", "Snapshot", "All"}

\* what a daemon with two projects replays, and what it sends afterwards
SnapshotEvents ==
    { Completed("a.nix", create_roots("a.nix", "out"), 2),
      Started("b.nix", ProjectAdded("b.nix"), 1) }

LiveEvents ==
    { Started("a.nix", FilesChanged(<< "d/f" >>), 3),
      Failure("b.nix", BuildExitFailure(<< "l2" >>), 2) }

\* the sequences without repetition over the subsets of S
Arrangements(S) == UNION {Orders(T) : T \in SUBSET S}

\* an item the connection yields: an event, or an error of the transport or
\* of the conversion into build_loop::Event
OkItem(ev) == [tag |-> "Ok", ev |-> ev]
ErrItem == [tag |-> "Err", ev |-> NoEvent]

Items(evs) == [i \in 1..Len(evs) |-> OkItem(evs[i])]

\* what a connection to the router yields: the replay, the sentinel, the
\* live events; an error ends it
Wires ==
    { Items(snap \o << SectionEnd >> \o live) \o tail :
        snap \in Arrangements(SnapshotEvents),
        live \in Arrangements(LiveEvents),
        tail \in {<< >>, << ErrItem >>} }

\* a connection that yields the sentinel a second time, between live events;
\* the client reads whatever its peer sends
WiresResent ==
    { Items(snap \o << SectionEnd >> \o a \o << SectionEnd >> \o b) :
        snap \in Arrangements(SnapshotEvents),
        a \in Arrangements(LiveEvents),
        b \in {c \in Arrangements(LiveEvents) : c # << >>} }

\* every SectionEnd flips the flag
after_section_end_toggles(done) == ~done

\* line 83: snapshot_done = true
after_section_end(done) == TRUE

\* line 90: serde_json::to_string(&ev), one tagged object per event
to_string(ev) == << "json", ev.type, ev >>

\* line 87: the events that are printed
prints(done, k) ==
    \/ k = "All"
    \/ ~done /\ k = "Snapshot"
    \/ done /\ k = "Live"

\* lines 61-65: the reader thread forwards the next item of the connection
ReaderForwards ==
    /\ client_pc \in {"select", "loop"}
    /\ wire # << >>
    /\ wire' = Tail(wire)
    /\ chan' = Append(chan, Head(wire))
    /\ UNCHANGED << event_kind, client_pc, snapshot_done, output, served, daemon_vars >>

\* line 68: the first item is received and sent again, behind what the
\* reader thread has put into the channel in the meantime
SelectRecv ==
    /\ client_pc = "select"
    /\ chan # << >>
    /\ chan' = Append(Tail(chan), Head(chan))
    /\ client_pc' = "loop"
    /\ UNCHANGED << event_kind, wire, snapshot_done, output, served, daemon_vars >>

\* line 69: nothing arrived within 250 ms
SelectTimeout ==
    /\ client_pc = "select"
    /\ chan = << >>
    /\ client_pc' = "timeout"
    /\ UNCHANGED << event_kind, wire, chan, snapshot_done, output, served, daemon_vars >>

\* lines 72-97: one iteration of the loop over the channel
LoopIteration ==
    /\ client_pc = "loop"
    /\ chan # << >>
    /\ chan' = Tail(chan)
    /\ LET event == Head(chan) IN
         CASE event.tag = "Err" ->
                /\ client_pc' = "error"
                /\ UNCHANGED << snapshot_done, output >>
           [] event.tag = "Ok" /\ event.ev.type = "SectionEnd" ->
                IF event_kind = "Snapshot"
                THEN /\ client_pc' = "ok"
                     /\ UNCHANGED << snapshot_done, output >>
                ELSE /\ snapshot_done' = after_section_end(snapshot_done)
                     /\ UNCHANGED << client_pc, output >>
           [] event.tag = "Ok" /\ event.ev.type # "SectionEnd" ->
                /\ output' = IF prints(snapshot_done, event_kind)
                             THEN Append(output, to_string(event.ev)) ELSE output
                /\ UNCHANGED << client_pc, snapshot_done >>
    /\ UNCHANGED << event_kind, wire, served, daemon_vars >>

\* no client is running
NoClient ==
    /\ event_kind = "All"
    /\ wire = << >>
    /\ chan = << >>
    /\ client_pc = "idle"
    /\ snapshot_done = FALSE
    /\ output = << >>
    /\ served = << >>

----------------------------------------------------------------------------
(* The daemon *)

NoRun == [run |-> [tag |-> "None"], extend_ok |-> TRUE, root_ok |-> TRUE]

Init ==
    /\ pc = [p \in Projects |-> "absent"]
    /\ watch = [p \in Projects |-> {}]
    /\ raw_events = [p \in Projects |-> <<>>]
    /\ watcher_alive = [p \in Projects |-> TRUE]
    /\ root_exists = [p \in Projects |-> FALSE]
    /\ sent = [p \in Projects |-> <<>>]
    /\ accept_messages = <<>>
    /\ build_messages = <<>>
    /\ project_states = [p \in Projects |-> NoEvent]
    /\ event_listeners = <<>>
    /\ accepted = [l \in Listeners |-> FALSE]
    /\ rx_alive = [l \in Listeners |-> FALSE]
    /\ stream = [l \in Listeners |-> <<>>]
    /\ routed = <<>>
    /\ pings = 0
    /\ last_run = [p \in Projects |-> NoRun]
    /\ during_build = [p \in Projects |-> FALSE]
    /\ process_alive = TRUE
    /\ Bound
    /\ NoClient

Next ==
    \/ \E p \in Projects : ForeverStart(p)
    \/ \E p \in Projects : ForeverBuild(p)
    \/ \E p \in Projects : ForeverWait(p)
    \/ \E p \in Projects : FileChange(p)
    \/ \E p \in Projects : WatcherDies(p)
    \/ \E p \in Projects : DeleteRoot(p)
    \/ \E p \in Projects : AcceptPing(p)
    \/ \E l \in Listeners : AcceptStreamEvents(l)
    \/ \E l \in Listeners : Disconnect(l)
    \/ HandleStartBuild
    \/ Router

Spec == Init /\ [][Next]_vars

(* The build loops with their environment and the registration of projects. *)
(* A BuildLoop reads nothing the router or a StreamEvents connection        *)
(* writes: here its events stay in the router's channel.                    *)
NextLoops ==
    \/ \E p \in Projects : ForeverStart(p)
    \/ \E p \in Projects : ForeverBuild(p)
    \/ \E p \in Projects : ForeverWait(p)
    \/ \E p \in Projects : FileChange(p)
    \/ \E p \in Projects : WatcherDies(p)
    \/ \E p \in Projects : DeleteRoot(p)
    \/ \E p \in Projects : AcceptPing(p)
    \/ HandleStartBuild

SpecLoops == Init /\ [][NextLoops]_vars

(* The router with its listeners, fed by the build loops of the projects,  *)
(* from the state in which every project has been registered: MaxPings     *)
(* start-build requests have been handled and the BuildLoop threads are    *)
(* spawned.                                                                *)
InitRouter ==
    /\ pc = [p \in Projects |-> "init"]
    /\ watch = [p \in Projects |-> {}]
    /\ raw_events = [p \in Projects |-> <<>>]
    /\ watcher_alive = [p \in Projects |-> TRUE]
    /\ root_exists = [p \in Projects |-> FALSE]
    /\ sent = [p \in Projects |-> <<>>]
    /\ accept_messages = <<>>
    /\ build_messages = <<>>
    /\ project_states = [p \in Projects |-> NoEvent]
    /\ event_listeners = <<>>
    /\ accepted = [l \in Listeners |-> FALSE]
    /\ rx_alive = [l \in Listeners |-> FALSE]
    /\ stream = [l \in Listeners |-> <<>>]
    /\ routed = <<>>
    /\ pings = MaxPings
    /\ last_run = [p \in Projects |-> NoRun]
    /\ during_build = [p \in Projects |-> FALSE]
    /\ process_alive = TRUE
    /\ Bound
    /\ NoClient

NextRouter ==
    \/ \E p \in Projects : ForeverStart(p)
    \/ \E p \in Projects : ForeverBuild(p)
    \/ \E p \in Projects : ForeverWait(p)
    \/ \E p \in Projects : FileChange(p)
    \/ \E l \in Listeners : AcceptStreamEvents(l)
    \/ \E l \in Listeners : Disconnect(l)
    \/ Router

SpecRouter == InitRouter /\ [][NextRouter]_vars

(* The router when its channel also carries the sentinel as a build event; *)
(* every project is built once and the listeners stay connected.           *)
NextSentinel ==
    \/ \E p \in Projects : ForeverStart(p)
    \/ \E p \in Projects : ForeverBuild(p)
    \/ \E l \in Listeners : AcceptStreamEvents(l)
    \/ SendSectionEnd
    \/ Router

SpecSentinel == InitRouter /\ [][NextSentinel]_vars

\* the state of a daemon nobody has asked anything of
DaemonIdle ==
    /\ pc = [p \in Projects |-> "absent"]
    /\ watch = [p \in Projects |-> {}]
    /\ raw_events = [p \in Projects |-> <<>>]
    /\ watcher_alive = [p \in Projects |-> TRUE]
    /\ root_exists = [p \in Projects |-> FALSE]
    /\ sent = [p \in Projects |-> <<>>]
    /\ accept_messages = <<>>
    /\ build_messages = <<>>
    /\ project_states = [p \in Projects |-> NoEvent]
    /\ event_listeners = <<>>
    /\ accepted = [l \in Listeners |-> FALSE]
    /\ rx_alive = [l \in Listeners |-> FALSE]
    /\ stream = [l \in Listeners |-> <<>>]
    /\ routed = <<>>
    /\ pings = 0
    /\ last_run = [p \in Projects |-> NoRun]
    /\ during_build = [p \in Projects |-> FALSE]
    /\ process_alive = TRUE
    /\ Bound

(* One run of the stream_events client, for every kind and for every       *)
(* stream a connection can yield: lines 57-59, main() is about to select.  *)
InitClient ==
    /\ DaemonIdle
    /\ event_kind \in EventKinds
    /\ wire \in Wires
    /\ served = wire
    /\ chan = << >>
    /\ client_pc = "select"
    /\ snapshot_done = FALSE
    /\ output = << >>

NextClient ==
    \/ ReaderForwards
    \/ SelectRecv
    \/ SelectTimeout
    \/ LoopIteration

SpecClient == InitClient /\ [][NextClient]_vars

(* The same client on every stream of SpecClient and on the streams that   *)
(* hold the sentinel twice.                                                *)
InitClientResent ==
    /\ DaemonIdle
    /\ event_kind \in EventKinds
    /\ wire \in Wires \cup WiresResent
    /\ served = wire
    /\ chan = << >>
    /\ client_pc = "select"
    /\ snapshot_done = FALSE
    /\ output = << >>

SpecClientResent == InitClientResent /\ [][NextClient]_vars

(* The daemon from the entry of main(): the socket is not bound yet, and   *)
(* once it is, projects are registered and built.                          *)
InitStartup ==
    /\ pc = [p \in Projects |-> "absent"]
    /\ watch = [p \in Projects |-> {}]
    /\ raw_events = [p \in Projects |-> <<>>]
    /\ watcher_alive = [p \in Projects |-> TRUE]
    /\ root_exists = [p \in Projects |-> FALSE]
    /\ sent = [p \in Projects |-> <<>>]
    /\ accept_messages = <<>>
    /\ build_messages = <<>>
    /\ project_states = [p \in Projects |-> NoEvent]
    /\ event_listeners = <<>>
    /\ accepted = [l \in Listeners |-> FALSE]
    /\ rx_alive = [l \in Listeners |-> FALSE]
    /\ stream = [l \in Listeners |-> <<>>]
    /\ routed = <<>>
    /\ pings = 0
    /\ last_run = [p \in Projects |-> NoRun]
    /\ during_build = [p \in Projects |-> FALSE]
    /\ process_alive = TRUE
    /\ main_pc = "binding"
    /\ bind_result = "None"
    /\ NoClient

NextStartup ==
    \/ Bind
    \/ \E p \in Projects : AcceptPing(p)
    \/ HandleStartBuild
    \/ \E p \in Projects : ForeverStart(p)
    \/ \E p \in Projects : ForeverBuild(p)
    \/ \E l \in Listeners : AcceptStreamEvents(l)
    \/ Router

SpecStartup == InitStartup /\ [][NextStartup]_vars

----------------------------------------------------------------------------
(* Properties of the BuildLoop, checked under SpecLoops *)

\* once() has returned to forever() in this step
BuildReturns(p) == pc[p] = "building" /\ pc'[p] # "building"

\* wait_for_change() has returned to forever() in this step
WaitReturns(p) == pc[p] = "waiting" /\ pc'[p] # "waiting"

\* the executor ran and reported a failing status
FailedRun(r) ==
    r.run.tag = "Ok" /\ r.run.status \in {"FailedAtInstantiation", "FailedAtRealize"}

\* C1: the events one BuildLoop sends alternate: Started, then one of
\* Completed/Failure, then Started, ...; never two Started in a row and no
\* Completed/Failure without an unmatched Started before it.
C1_Alternation ==
    \A p \in Projects : \A i \in 1..Len(sent[p]) :
        /\ sent[p][i].nix_file = p
        /\ IF i % 2 = 1 THEN sent[p][i].type = "Started" ELSE IsTerminal(sent[p][i])

\* one loop has run two full iterations
C1_Witness == \E p \in Projects : Len(sent[p]) >= 4

\* C2: the first event of a BuildLoop is Started with reason
\* ProjectAdded(nix file of the project), sent before any build is run and
\* before the loop waits for a trigger.
C2_FirstIsProjectAdded ==
    \A p \in Projects :
        /\ sent[p] # << >> => sent[p][1] = Started(p, ProjectAdded(p), 1)
        /\ (pc[p] \in {"building", "waiting", "panicked"} \/ last_run[p] # NoRun)
             => sent[p] # << >>

\* a loop has sent its first event, built and gone to wait
C2_Witness ==
    \E p \in Projects :
        pc[p] = "waiting" /\ Len(sent[p]) = 2 /\ sent[p][1].reason.kind = "ProjectAdded"

\* the build-instruction handler takes a start-build request (a ping) for p
PingDelivered(p) ==
    /\ accept_messages # << >>
    /\ Head(accept_messages).nix_file = p
    /\ accept_messages' = Tail(accept_messages)
    /\ process_alive'

\* C7: a ping delivered to a loop that waits after a completed build produces
\* Started(PingReceived) if and only if the root of that build no longer
\* exists; with the root intact it produces no event.
C7_PingRebuildsIffRootMissing ==
    [][\A p \in Projects :
         (PingDelivered(p) /\ pc[p] = "waiting" /\ Last(sent[p]).type = "Completed")
           => /\ (~root_exists[p])
                   <=> sent'[p] = Append(sent[p], Started(p, PingReceived, NextId(p)))
              /\ root_exists[p] => sent'[p] = sent[p]]_vars

\* what C8 asks of the step in which once() returns
ReportsFailure(p) ==
    /\ sent'[p] = Append(sent[p],
                         Failure(p, [log_lines |-> last_run'[p].run.lines], NextId(p)))
    /\ pc'[p] = "waiting"
    /\ process_alive'

C9_ActionablePartition ==
    [][\A p \in Projects :
         (BuildReturns(p) /\ last_run'[p].run.tag = "Err")
           => IF is_actionable(last_run'[p].run.err)
              THEN /\ pc'[p] = "waiting"
                   /\ process_alive'
                   /\ Len(sent'[p]) = Len(sent[p]) + 1
                   /\ Last(sent'[p]).type = "Failure"
              ELSE /\ pc'[p] = "panicked"
                   /\ ~process_alive'
                   /\ sent' = sent]_vars

\* C10: a notification without a file path makes the loop send Started with
\* reason UnknownEvent and build again; a closed notification channel makes
\* it panic, and a panicked loop sends nothing more.
C10_WatcherErrors ==
    [][\A p \in Projects :
         /\ (WaitReturns(p) /\ raw_events[p] # << >> /\ Head(raw_events[p]) = << >>)
              => /\ sent'[p] = Append(sent[p],
                        Started(p, UnknownEvent(DebugMessage(<< >>)), NextId(p)))
                 /\ pc'[p] = "building"
                 /\ process_alive'
         /\ (WaitReturns(p) /\ raw_events[p] = << >>)
              => /\ pc'[p] = "panicked"
                 /\ sent'[p] = sent[p]
                 /\ ~process_alive'
         /\ pc[p] = "panicked" => (pc'[p] = "panicked" /\ sent'[p] = sent[p])]_vars

\* a loop built for an UnknownEvent and later panicked in its wait
C10_Witness ==
    \E p \in Projects :
        /\ pc[p] = "panicked"
        /\ Len(sent[p]) = 4
        /\ sent[p][3].reason.kind = "UnknownEvent"
        /\ IsTerminal(sent[p][4])

\* the reason forever() cites for the notification raw
ReasonOf(raw) == IF raw = << >> THEN UnknownEvent(DebugMessage(raw)) ELSE FilesChanged(raw)

\* the watcher queues a notification for p in this step
Notified(p) == Len(raw_events'[p]) > Len(raw_events[p])

\* C17: a change the watcher notices while once() runs leaves the build
\* alone: nothing is sent and the loop stays where it is; with a change
\* pending, the build ends by sending its Completed or Failure (or by a
\* panic), never a Started, and the change stays queued; the wait that
\* follows takes it and sends Started with its reason, right after the
\* terminal event.
C17_ChangeDuringBuild ==
    [][\A p \in Projects :
         /\ (pc[p] = "building" /\ Notified(p))
              => (pc'[p] = "building" /\ sent'[p] = sent[p] /\ during_build'[p])
         /\ (BuildReturns(p) /\ raw_events[p] # << >>)
              => /\ raw_events'[p] = raw_events[p]
                 /\ \/ pc'[p] = "panicked" /\ sent'[p] = sent[p]
                    \/ /\ pc'[p] = "waiting"
                       /\ Len(sent'[p]) = Len(sent[p]) + 1
                       /\ IsTerminal(Last(sent'[p]))
         /\ (WaitReturns(p) /\ raw_events[p] # << >>)
              => /\ IsTerminal(Last(sent[p]))
                 /\ raw_events'[p] = Tail(raw_events[p])
                 /\ sent'[p] = Append(sent[p],
                        Started(p, ReasonOf(Head(raw_events[p])), NextId(p)))
                 /\ pc'[p] = "building"]_vars

\* a change was noticed during the first build of a project; the build
\* went on to its terminal event, and the loop waits with the change queued
C17_Witness ==
    \E p \in Projects :
        /\ pc[p] = "waiting" /\ during_build[p]
        /\ raw_events[p] = << << "d/f" >> >>
        /\ Len(sent[p]) = 2
        /\ IsTerminal(sent[p][2])

\* the executor ran and reported Complete(path)
CompleteRun(r) == r.run.tag = "Ok" /\ r.run.status = "Complete"

\* forever() sends Completed for p in this step
SendsCompleted(p) == sent'[p] # sent[p] /\ Last(sent'[p]).type = "Completed"

\* C18: when the executor reports Complete(path), the watch set is extended
\* with the reduced referenced paths before the roots are created: a failed
\* extension leaves no root behind; Completed is sent only after both have
\* succeeded, and carries the roots created for that path.
C18_CompleteOrder ==
    [][\A p \in Projects :
         /\ (BuildReturns(p) /\ CompleteRun(last_run'[p])) =>
              LET r == last_run'[p] IN
              /\ ~r.extend_ok =>
                   /\ watch'[p] = watch[p]
                   /\ root_exists'[p] = root_exists[p]
              /\ r.extend_ok =>
                   /\ watch'[p] = watch[p] \cup reduce_paths(r.run.referenced_paths)
                   /\ root_exists'[p] = IF r.root_ok THEN TRUE ELSE root_exists[p]
              /\ IF r.extend_ok /\ r.root_ok
                 THEN /\ sent'[p] = Append(sent[p],
                             Completed(p, create_roots(p, r.run.path), NextId(p)))
                      /\ pc'[p] = "waiting"
                 ELSE sent'[p] = sent[p] /\ pc'[p] = "panicked"
         /\ SendsCompleted(p) =>
              /\ BuildReturns(p)
              /\ CompleteRun(last_run'[p])
              /\ last_run'[p].extend_ok /\ last_run'[p].root_ok
              /\ root_exists'[p]
              /\ reduce_paths(last_run'[p].run.referenced_paths) \subseteq watch'[p]]_vars

\* a build was reported Completed with its roots, the referenced path is
\* watched and the root exists
C18_Witness ==
    \E p \in Projects :
        /\ Len(sent[p]) >= 2
        /\ sent[p][2] = Completed(p, create_roots(p, "out"), 2)
        /\ watch[p] = {"d/f"}
        /\ root_exists[p]

\* C19: when creating the roots of a completed build fails, the loop sends
\* a Failure for the project, does not terminate and goes on to wait for the
\* next trigger.
C19_RootErrorNonFatal ==
    [][\A p \in Projects :
         (BuildReturns(p) /\ CompleteRun(last_run'[p])
                          /\ last_run'[p].extend_ok /\ ~last_run'[p].root_ok)
           => /\ Len(sent'[p]) = Len(sent[p]) + 1
              /\ Last(sent'[p]).type = "Failure"
              /\ pc'[p] = "waiting"
              /\ process_alive']_vars

\* forever() sends a Started for p in this step
SendsStarted(p) == sent'[p] # sent[p] /\ Last(sent'[p]).type = "Started"

\* C20: the wait of a loop takes one notification off the channel and sends
\* one Started with its reason, and one call of once() follows: a loop that
\* has not panicked builds exactly while the last event it sent is a
\* Started, and the return of once() sends at most the terminal event.  Apart from the first Started, which cites
\* ProjectAdded, a Started is sent only by a wait that has taken a
\* notification.
C20_ReasonConsumedOnce ==
    [][\A p \in Projects :
         /\ (WaitReturns(p) /\ raw_events[p] # << >>)
              => /\ raw_events'[p] = Tail(raw_events[p])
                 /\ sent'[p] = Append(sent[p],
                        Started(p, ReasonOf(Head(raw_events[p])), NextId(p)))
                 /\ pc'[p] = "building"
         /\ pc'[p] # "panicked"
              => ((pc'[p] = "building")
                    <=> (sent'[p] # << >> /\ Last(sent'[p]).type = "Started"))
         /\ BuildReturns(p)
              => /\ Len(sent'[p]) =< Len(sent[p]) + 1
                 /\ ~SendsStarted(p)
                 /\ raw_events'[p] = raw_events[p]
         /\ SendsStarted(p)
              => IF sent[p] = << >>
                 THEN sent'[p] = << Started(p, ProjectAdded(p), 1) >>
                 ELSE WaitReturns(p) /\ raw_events[p] # << >>]_vars

\* a loop took a change, cited it in a Started, built once for it and waits
\* again with nothing pending
C20_Witness ==
    \E p \in Projects :
        /\ pc[p] = "waiting" /\ raw_events[p] = << >>
        /\ Len(sent[p]) = 4
        /\ sent[p][3] = Started(p, FilesChanged(<< "d/f" >>), 3)
        /\ IsTerminal(sent[p][4])

\* C22: when the executor returns a run result, whatever its status, once()
\* extends the watch set with the reduced referenced paths; when that
\* extension fails the loop panics without sending anything, also for a
\* build that failed; the watch set of a project never loses a path and
\* changes only when once() returns with a run result.
C22_WatchExtendedFirst ==
    [][\A p \in Projects :
         /\ watch[p] \subseteq watch'[p]
         /\ watch'[p] # watch[p] => (BuildReturns(p) /\ last_run'[p].run.tag = "Ok")
         /\ (BuildReturns(p) /\ last_run'[p].run.tag = "Ok") =>
              IF last_run'[p].extend_ok
              THEN watch'[p] = watch[p] \cup reduce_paths(last_run'[p].run.referenced_paths)
              ELSE /\ watch'[p] = watch[p]
                   /\ pc'[p] = "panicked"
                   /\ sent'[p] = sent[p]
                   /\ ~process_alive']_vars

\* two builds of a project failed, one at instantiation and one at realize,
\* and the watch set holds the reduced paths of both
C22_Witness ==
    \E p \in Projects :
        /\ Len(sent[p]) = 4
        /\ sent[p][2].type = "Failure" /\ sent[p][4].type = "Failure"
        /\ watch[p] = {"d", "e"}

\* the build-instruction handler takes a start-build request for p off its channel
StartBuildHandled(p) ==
    /\ accept_messages # << >>
    /\ Head(accept_messages).nix_file = p
    /\ accept_messages' = Tail(accept_messages)

\* the BuildLoop thread of p runs
Running(p) == pc[p] \in {"init", "building", "waiting"}

\* the Started{ProjectAdded} events among evs
ProjectAddedIn(evs) ==
    SelectIdx(evs, LAMBDA e : e.type = "Started" /\ e.reason.kind = "ProjectAdded")

\* C12: a start-build request for a project whose BuildLoop runs changes
\* nothing: no BuildLoop is spawned or restarted, nothing is sent to the
\* router, the router's state stays as it is, and no project ever sends a
\* second Started{ProjectAdded}.
C12_DuplicateIsNoOp ==
    [][\A p \in Projects :
         /\ (StartBuildHandled(p) /\ Running(p))
              => /\ pc' = pc
                 /\ sent' = sent
                 /\ build_messages' = build_messages
                 /\ router_vars' = router_vars
         /\ Cardinality(ProjectAddedIn(sent'[p])) =< 1]_vars

\* both requests of the run were for one project and were handled; its loop
\* runs and has built, the other project has no loop
C12_Witness ==
    \E p \in Projects :
        /\ pings = MaxPings
        /\ accept_messages = << >>
        /\ process_alive
        /\ Running(p) /\ Len(sent[p]) >= 2
        /\ \A q \in Projects \ {p} : pc[q] = "absent"

----------------------------------------------------------------------------
(* Properties of the router, checked under SpecRouter.  They are stated   *)
(* over routed, the messages the router has processed so far.             *)

\* routed[i] is a build event the router stores and broadcasts
IsEv(i) == routed[i].kind = "BuildEvent" /\ routed[i].ev.type # "SectionEnd"

\* the router has processed the NewListener message of l
Joined(l) == \E i \in DOMAIN routed : routed[i].kind = "NewListener" /\ routed[i].tx = l

JoinAt(l) == CHOOSE i \in DOMAIN routed : routed[i].kind = "NewListener" /\ routed[i].tx = l

\* the positions, among the first n messages, of the latest event of each project
LatestAt(n) ==
    {i \in 1..n : /\ IsEv(i)
                  /\ ~ \E k \in (i+1)..n : IsEv(k) /\ routed[k].ev.nix_file = routed[i].ev.nix_file}

\* the latest event of each project among the first n messages
SnapshotAt(n) == {routed[i].ev : i \in LatestAt(n)}

\* the build events processed after the first n messages, in order
RECURSIVE LiveAfter(_)
LiveAfter(n) ==
    IF n >= Len(routed) THEN << >>
    ELSE IF IsEv(n + 1) THEN << routed[n + 1].ev >> \o LiveAfter(n + 1)
         ELSE LiveAfter(n + 1)

\* the router takes a message in this step
Routes == routed' # routed

\* C3: a listener that stays connected receives one event per project of the
\* map (its latest), in some order, then one SectionEnd, then the live
\* events; no stream holds SectionEnd twice.
C3_SnapshotSentinelLive ==
    \A l \in Listeners :
        /\ Cardinality({i \in DOMAIN stream[l] : stream[l][i] = SectionEnd}) =< 1
        /\ ~Joined(l) => stream[l] = << >>
        /\ (Joined(l) /\ rx_alive[l]) =>
             \E order \in Orders(SnapshotAt(JoinAt(l) - 1)) :
                 stream[l] = order \o << SectionEnd >> \o LiveAfter(JoinAt(l))

\* a connected listener got a snapshot of two projects and then a live event
C3_Witness ==
    \E l \in Listeners :
        /\ rx_alive[l]
        /\ Len(stream[l]) >= 4
        /\ stream[l][3] = SectionEnd
        /\ stream[l][1].nix_file # stream[l][2].nix_file

\* the router handles NewListener(l) in this step and not every send succeeds
ReplayFails(l) ==
    /\ Routes
    /\ Head(build_messages).kind = "NewListener"
    /\ Head(build_messages).tx = l
    /\ (stream'[l] = << >> \/ Last(stream'[l]) # SectionEnd)

\* the router takes a build event it stores and broadcasts
RoutesEvent ==
    /\ Routes
    /\ Head(build_messages).kind = "BuildEvent"
    /\ Head(build_messages).ev.type # "SectionEnd"

\* C13: nothing a listener does or fails to do holds the router up: it can
\* always take the next message of its channel, however much has piled up
\* unread in the listeners' channels and whoever has disconnected; taking a
\* build event, it delivers it to every connected listener of the set, drops
\* the disconnected ones, and is done with the message.
C13_RouterNeverBlocks ==
    /\ []((process_alive /\ build_messages # << >>) => ENABLED Router)
    /\ [][RoutesEvent =>
            /\ \A m \in Range(event_listeners) :
                 IF rx_alive[m]
                 THEN /\ stream'[m] = Append(stream[m], Head(build_messages).ev)
                      /\ m \in Range(event_listeners')
                 ELSE /\ stream'[m] = stream[m]
                      /\ m \notin Range(event_listeners')
            /\ build_messages' = Tail(build_messages)
            /\ process_alive']_vars

\* l joined and went away; the next build event did not reach l, did reach
\* m, who joined as well, and the router has taken a further message since
C13_Witness ==
    \E l, m \in Listeners : \E i \in DOMAIN routed :
        /\ l # m /\ Joined(l) /\ Joined(m)
        /\ SectionEnd \in Range(stream[l]) /\ ~rx_alive[l]
        /\ l \notin Range(event_listeners)
        /\ IsEv(i) /\ i > JoinAt(l) /\ i > JoinAt(m)
        /\ routed[i].ev \notin Range(stream[l])
        /\ rx_alive[m] /\ routed[i].ev \in Range(stream[m])
        /\ Len(routed) > i

\* C4: when a send of the replay or of the sentinel fails, the listener is
\* not added, nothing is raised, the map and the other listeners stay as
\* they are; every build event still reaches every connected listener of the
\* set, and only listeners with a complete replay are in the set.
C4_FailedReplayDiscarded ==
    [][/\ \A l \in Listeners :
            ReplayFails(l) =>
              /\ event_listeners' = event_listeners
              /\ l \notin Range(event_listeners')
              /\ project_states' = project_states
              /\ process_alive'
              /\ \A m \in Listeners \ {l} : stream'[m] = stream[m] /\ rx_alive'[m] = rx_alive[m]
       /\ (Routes /\ Head(build_messages).kind = "BuildEvent"
                  /\ Head(build_messages).ev.type # "SectionEnd") =>
            \A m \in Range(event_listeners) :
                rx_alive[m] => stream'[m] = Append(stream[m], Head(build_messages).ev)
       /\ \A m \in Range(event_listeners') : SectionEnd \in Range(stream'[m])]_vars

\* the replay to l broke off after an event; m, who joined before, got an
\* event that was routed later
C4_Witness ==
    \E l, m \in Listeners :
        /\ Joined(l) /\ Joined(m) /\ JoinAt(m) < JoinAt(l)
        /\ stream[l] # << >> /\ SectionEnd \notin Range(stream[l])
        /\ l \notin Range(event_listeners)
        /\ m \in Range(event_listeners)
        /\ \E i \in DOMAIN routed : i > JoinAt(l) /\ IsEv(i) /\ Last(stream[m]) = routed[i].ev

\* l is in the router's Listener set
InSet(l) == l \in Range(event_listeners)

\* C16: every channel of the Listener set has been sent a complete snapshot,
\* SectionEnd and every build event taken since, none of the sends failing;
\* a channel enters the set only in the step that replays to it in full,
\* leaves it in the step that takes the first build event after its
\* receiver is gone, and is sent nothing and never re-enters once it is out.
C16_ListenerSetMembers ==
    /\ [](\A l \in Listeners : InSet(l) =>
            /\ Joined(l)
            /\ \E order \in Orders(SnapshotAt(JoinAt(l) - 1)) :
                 stream[l] = order \o << SectionEnd >> \o LiveAfter(JoinAt(l)))
    /\ [][\A l \in Listeners :
            /\ (~InSet(l) /\ InSet(l)') =>
                 /\ Routes /\ Head(build_messages) = [kind |-> "NewListener", tx |-> l]
                 /\ \E order \in Orders(StateValues) :
                      stream'[l] = stream[l] \o order \o << SectionEnd >>
            /\ (InSet(l) /\ RoutesEvent) => (InSet(l)' <=> rx_alive[l])
            /\ (InSet(l) /\ ~InSet(l)') => (RoutesEvent /\ stream'[l] = stream[l])
            /\ (Joined(l) /\ ~InSet(l)) => (stream'[l] = stream[l] /\ ~InSet(l)')]_vars

\* l was in the set, got a live event, went away and was removed when the
\* next event was taken; that event is not in its channel
C16_Witness ==
    \E l \in Listeners : \E i, j \in DOMAIN routed :
        /\ Joined(l) /\ JoinAt(l) < i /\ i < j
        /\ IsEv(i) /\ IsEv(j)
        /\ routed[i].ev \in Range(stream[l])
        /\ routed[j].ev \notin Range(stream[l])
        /\ ~InSet(l)

\* the positions of the events of project p in the stream of l
OfProject(l, p) ==
    {i \in DOMAIN stream[l] : stream[l][i].type # "SectionEnd" /\ stream[l][i].nix_file = p}

\* C5: every listener gets the events of one project in the order in which
\* the project's BuildLoop sent them.
C5_PerProjectOrder ==
    \A l \in Listeners : \A p \in Projects :
        /\ \A i \in OfProject(l, p) :
              /\ stream[l][i].id \in DOMAIN sent[p]
              /\ stream[l][i] = sent[p][stream[l][i].id]
        /\ \A i, j \in OfProject(l, p) : i < j => stream[l][i].id < stream[l][j].id

\* a listener has got two events of one project and one of the other
C5_Witness ==
    \E l \in Listeners : \E p, q \in Projects :
        /\ p # q
        /\ Cardinality(OfProject(l, p)) >= 2
        /\ OfProject(l, q) # {}

\* the events of project p the router has taken, in order
RoutedOf(p) ==
    LET msgs == SelectSeq(routed, LAMBDA m : /\ m.kind = "BuildEvent"
                                             /\ m.ev.type # "SectionEnd"
                                             /\ m.ev.nix_file = p)
    IN [i \in DOMAIN msgs |-> msgs[i].ev]

\* the events of project p that were put into the channel of l, in order
StreamOf(l, p) ==
    SelectSeq(stream[l], LAMBDA e : e.type # "SectionEnd" /\ e.nix_file = p)

\* how many events of project p the router had taken when l joined
TakenAtJoin(l, p) ==
    Cardinality({i \in 1..(JoinAt(l) - 1) : IsEv(i) /\ routed[i].ev.nix_file = p})

\* C21: for a listener that stays connected and a project, the project's
\* events in the listener's channel, replay and live together, are the
\* events the router has taken for the project from the latest one at the
\* join on, each once and in order; a Started of the replay is followed by
\* the terminal event of its build as soon as the router has taken it.
C21_ContiguousSuffix ==
    \A l \in Listeners : (Joined(l) /\ rx_alive[l]) =>
        \A p \in Projects :
            LET all == RoutedOf(p)
                n == TakenAtJoin(l, p)
                mine == StreamOf(l, p)
            IN /\ mine = SubSeq(all, IF n = 0 THEN 1 ELSE n, Len(all))
               /\ \A i \in DOMAIN mine :
                    (mine[i].type = "Started" /\ mine[i].id < Len(all))
                      => /\ i < Len(mine)
                         /\ IsTerminal(mine[i + 1])
                         /\ mine[i + 1].id = mine[i].id + 1

\* a listener joined while a build of a project ran and after an earlier
\* build of it: its replay holds the Started, the terminal event came live
C21_Witness ==
    \E l \in Listeners : \E p \in Projects :
        /\ Joined(l) /\ rx_alive[l]
        /\ TakenAtJoin(l, p) = 3
        /\ Len(StreamOf(l, p)) = 2
        /\ StreamOf(l, p)[1].type = "Started"
        /\ IsTerminal(StreamOf(l, p)[2])

\* where l has got the event ev
Occurrences(l, ev) == {k \in DOMAIN stream[l] : stream[l][k] = ev}

\* where l has got a later event of the project of ev
LaterOnes(l, ev) == {k \in OfProject(l, ev.nix_file) : stream[l][k].id > ev.id}

\* l has got ev once, and before every later event of its project
ObservesOnce(l, ev) ==
    /\ Cardinality(Occurrences(l, ev)) = 1
    /\ \A k \in Occurrences(l, ev) : \A k2 \in LaterOnes(l, ev) : k < k2

\* routed[i] is a Completed event
IsCompleted(i) == IsEv(i) /\ routed[i].ev.type = "Completed"

\* between routed[i] and routed[j] no other event of the project of routed[i]
StillLatest(i, j) ==
    i < j /\ ~ \E k \in (i+1)..(j-1) : IsEv(k) /\ routed[k].ev.nix_file = routed[i].ev.nix_file

\* C6 as stated: a connected listener that joined before the router
\* processed a Completed event, and one that joined after, have both got the
\* event once and before every later event of the project.
C6_AsStated ==
    \A i \in DOMAIN routed : IsCompleted(i) =>
        \A l \in Listeners : (Joined(l) /\ rx_alive[l]) => ObservesOnce(l, routed[i].ev)

\* C6, amended: the listener that joined after has got the event (in its
\* snapshot) when no later event of the project was processed before it
\* joined; the listener that joined before has got it live.
C6_BeforeAndAfter ==
    \A i \in DOMAIN routed : IsCompleted(i) =>
        \A l \in Listeners : (Joined(l) /\ rx_alive[l]) =>
            LET sentinel == CHOOSE k \in DOMAIN stream[l] : stream[l][k] = SectionEnd IN
            /\ JoinAt(l) < i =>
                 /\ ObservesOnce(l, routed[i].ev)
                 /\ \A k \in Occurrences(l, routed[i].ev) : k > sentinel
            /\ StillLatest(i, JoinAt(l)) =>
                 /\ ObservesOnce(l, routed[i].ev)
                 /\ \A k \in Occurrences(l, routed[i].ev) : k < sentinel

\* one listener joined before a Completed event, another after it, and a
\* later event of the project has reached both
C6_Witness ==
    \E i \in DOMAIN routed : \E l, m \in Listeners :
        /\ IsCompleted(i)
        /\ Joined(l) /\ rx_alive[l] /\ JoinAt(l) < i
        /\ Joined(m) /\ rx_alive[m] /\ StillLatest(i, JoinAt(m))
        /\ LaterOnes(l, routed[i].ev) # {}
        /\ LaterOnes(m, routed[i].ev) # {}

----------------------------------------------------------------------------
(* Properties of the router's map, checked under SpecSentinel *)

\* the router has taken a build event of project p
Received(p) == \E i \in DOMAIN routed : IsEv(i) /\ routed[i].ev.nix_file = p

\* the last build event of project p the router has taken
MostRecent(p) ==
    routed[CHOOSE i \in LatestAt(Len(routed)) : routed[i].ev.nix_file = p].ev

\* the router takes BuildEvent(SectionEnd)
RoutesSectionEnd == Routes /\ Head(build_messages) = [kind |-> "BuildEvent", ev |-> SectionEnd]

\* C15: the map holds, for every project the router has taken a
\* Started/Completed/Failure of, the last one taken, and nothing for the
\* other projects; taking SectionEnd as a build event changes neither the
\* map nor any listener's channel, so a listener gets SectionEnd once, from
\* its replay.
C15_MapHoldsMostRecent ==
    /\ [](\A p \in Projects :
            project_states[p] = IF Received(p) THEN MostRecent(p) ELSE NoEvent)
    /\ [](\A l \in Listeners :
            Cardinality({i \in DOMAIN stream[l] : stream[l][i] = SectionEnd}) =< 1)
    /\ [][RoutesSectionEnd =>
            /\ project_states' = project_states
            /\ stream' = stream
            /\ event_listeners' = event_listeners]_vars

\* SectionEnd came as a build event while a listener was in the set and
\* both projects had an entry; an event taken later replaced an entry
C15_Witness ==
    \E i \in DOMAIN routed : \E l \in Listeners :
        /\ routed[i] = [kind |-> "BuildEvent", ev |-> SectionEnd]
        /\ Joined(l) /\ JoinAt(l) < i /\ l \in Range(event_listeners)
        /\ Cardinality(LatestAt(i)) = Cardinality(Projects)
        /\ \E j \in DOMAIN routed : j > i /\ IsEv(j) /\ project_states[routed[j].ev.nix_file] = routed[j].ev

----------------------------------------------------------------------------
(* Properties of the stream_events client, checked under SpecClient.  They *)
(* compare what was printed with served, what the connection yields.       *)

\* where the connection yields its first SectionEnd
FirstSectionEnd ==
    CHOOSE i \in DOMAIN served :
        /\ served[i] = OkItem(SectionEnd)
        /\ \A j \in 1..(i-1) : served[j] # OkItem(SectionEnd)

\* the lines of the events the connection yields at the positions in I
LinesAt(I) == {to_string(served[i].ev) : i \in {j \in I : served[j].tag = "Ok"}}

LinesBefore == LinesAt(1..(FirstSectionEnd - 1))

LinesAfter == LinesAt({j \in DOMAIN served : j > FirstSectionEnd /\ served[j].ev # SectionEnd})

\* main() has worked off everything the connection yields
AllConsumed == client_pc = "loop" /\ wire = << >> /\ chan = << >>

\* C11: Snapshot prints exactly the events before the first SectionEnd and
\* stops at it; Live prints none of the events up to the first SectionEnd
\* and every event after it; All prints every event before and after it.
C11_KindsSelectEvents ==
    /\ event_kind = "Snapshot" =>
         /\ Range(output) \subseteq LinesBefore
         /\ client_pc = "ok" => Range(output) = LinesBefore
         /\ client_pc = "loop" => OkItem(SectionEnd) \in Range(wire) \cup Range(chan)
    /\ event_kind = "Live" =>
         /\ Range(output) \subseteq LinesAfter
         /\ AllConsumed => Range(output) = LinesAfter
    /\ event_kind = "All" =>
         /\ Range(output) \subseteq LinesBefore \cup LinesAfter
         /\ AllConsumed => Range(output) = LinesBefore \cup LinesAfter

----------------------------------------------------------------------------
(* Properties of the daemon's startup, checked under SpecStartup *)

\* no thread of the daemon has done anything
NothingStarted ==
    /\ \A p \in Projects : pc[p] = "absent" /\ sent[p] = << >>
    /\ \A l \in Listeners : ~accepted[l] /\ stream[l] = << >>
    /\ pings = 0
    /\ accept_messages = << >> /\ build_messages = << >>
    /\ routed = << >> /\ event_listeners = << >>

\* C14: when the bind fails because another process listens, main() returns
\* a user error and does not panic, and no router, accept loop or BuildLoop
\* ever runs; any other bind error panics; only a daemon that has bound
\* the socket accepts, routes or builds.
C14_BindConflictIsUserError ==
    /\ bind_result = "OtherProcessListening" => main_pc = "user_error"
    /\ bind_result = "Other" => main_pc = "panicked"
    /\ bind_result = "Ok" => main_pc = "running"
    /\ main_pc # "running" => NothingStarted
    /\ main_pc \in {"user_error", "panicked"} => ~process_alive

\* the bind met another daemon
C14_Witness == bind_result = "OtherProcessListening" /\ main_pc = "user_error"

----------------------------------------------------------------------------
(* Properties of the stream_events client, checked under SpecClientResent *)

\* main() takes SectionEnd off the channel in this step
TakesSectionEnd ==
    /\ client_pc = "loop" /\ chan # << >>
    /\ Head(chan) = OkItem(SectionEnd)
    /\ chan' = Tail(chan)

\* main() takes an event other than SectionEnd off the channel in this step
TakesEvent ==
    /\ client_pc = "loop" /\ chan # << >>
    /\ Head(chan).tag = "Ok" /\ Head(chan).ev # SectionEnd
    /\ chan' = Tail(chan)

\* C23: no line the client prints is the SectionEnd sentinel, whatever the
\* kind; taking SectionEnd prints nothing and leaves snapshot_done true in
\* Live and All, and snapshot_done is never reset, so that a Live client
\* prints every event it takes after its first SectionEnd, also after a
\* second one.
C23_SentinelNeverPrinted ==
    /\ [](\A i \in DOMAIN output : output[i] # to_string(SectionEnd))
    /\ [][/\ snapshot_done => snapshot_done'
          /\ TakesSectionEnd =>
               /\ output' = output
               /\ event_kind # "Snapshot" => snapshot_done'
          /\ (TakesEvent /\ snapshot_done /\ event_kind = "Live") =>
               output' = Append(output, to_string(Head(chan).ev))]_vars

\* a Live client has worked off a stream with two sentinels and has printed
\* an event that came after the second
C23_Witness ==
    /\ event_kind = "Live" /\ snapshot_done
    /\ client_pc = "loop" /\ wire = << >> /\ chan = << >>
    /\ \E i, j, k \in DOMAIN served :
         /\ i < j /\ j < k
         /\ served[i] = OkItem(SectionEnd) /\ served[j] = OkItem(SectionEnd)
         /\ served[k].ev # SectionEnd
         /\ to_string(served[k].ev) \in Range(output)

====
